---- MODULE Spec2Model ----
(***************************************************************************)
(* Model of gondor's N-dimensional array engine,                           *)
(* src/internal/ndarray/ndarray.go: one NDArray (a flat buffer `data`, a   *)
(* `shape` and the `strides` derived from it), the constructors New, Zeros,*)
(* Ones and Full, and the methods Get, Set, Shape, Reshape, Size, String.  *)
(*                                                                         *)
(* Go's `int` is a fixed-width two's-complement integer.  The model keeps  *)
(* the width (IntBits, scaled down) in every place where the code          *)
(* multiplies or adds ints: totalSize, stride, flatIndex and offset.       *)
(* float64 values are modelled by integers (0 is 0.0, 1 is 1.0, ...); the  *)
(* code only stores and returns them, it never computes with them.         *)
(***************************************************************************)
EXTENDS Integers, Sequences, FiniteSets, TLC

VARIABLES
    a,          \* the handle the caller holds: "none", "nil" or "ptr"
    data,       \* NDArray.data    (ndarray.go:61)
    shape,      \* NDArray.shape   (ndarray.go:62)
    strides,    \* NDArray.strides (ndarray.go:63)
    last,       \* the last call: its name, its arguments and what it returned
    panicked,   \* TRUE once a call has ended in a runtime panic
    other       \* the array a second call of New returned, with its buffer

vars == <<a, data, shape, strides, last, panicked, other>>

----------------------------------------------------------------------------
(* Bounds of the model *)

\* width of Go's int in the model (64 or 32 in a real build): totalSize,
\* stride, flatIndex and offset are ints
IntBits == 4

\* extents and indices are drawn from -1 .. MaxExtent
MaxExtent == 3

(* Program constants *)

\* the largest rank New accepts
MaxDims == 32

----------------------------------------------------------------------------
(* Go's int arithmetic *)

RECURSIVE Pow2(_)
Pow2(n) == IF n = 0 THEN 1 ELSE 2 * Pow2(n - 1)

MaxInt == Pow2(IntBits - 1) - 1
MinInt == 0 - Pow2(IntBits - 1)
Modulus == Pow2(IntBits)

\* the value an int variable holds after an operation whose true result is x
Wrap(x) == ((x - MinInt) % Modulus) + MinInt

IntMul(x, y) == Wrap(x * y)
IntAdd(x, y) == Wrap(x + y)

----------------------------------------------------------------------------
(* Values *)

\* the float64 values passed to Set
Values == {0, 42}

\* the float64 values passed to Full
FullValues == {0, 7}

Dims == (0 - 1) .. MaxExtent

Const(n, v) == [i \in 1..n |-> v]

\* the empty tuple, the 1-tuples and the 2-tuples over S
Tuples(S) ==
    {<<>>} \cup { <<x>> : x \in S } \cup { <<x, y>> : x \in S, y \in S }

\* shapes at the rank limit and just beyond it
LongShapes ==
    { Const(MaxDims, 1),
      Const(MaxDims + 1, 1),
      [i \in 1..(MaxDims + 1) |-> IF i = 2 THEN 0 ELSE 1] }

\* shapes whose extents fit in an int and whose product, 2^IntBits, does
\* not (New(1<<32, 1<<32) in a 64-bit build); in the second the stride of
\* the first axis is that product
OverflowShapes ==
    { <<Pow2(IntBits \div 2), Pow2(IntBits - IntBits \div 2)>>,
      <<1, Pow2(IntBits \div 2), Pow2(IntBits - IntBits \div 2)>> }

\* a shape whose product, 2^IntBits + 4, wraps to a positive totalSize, and
\* the index tuple of its last row, whose offset, 2^IntBits, wraps to 0
\* (New(1<<62 + 1, 4) and the indices (1<<62, 0) in a 64-bit build)
WrapShapes == { <<Pow2(IntBits - 2) + 1, Pow2(2)>> }
WrapIndices == { <<Pow2(IntBits - 2), 0>> }

Shapes == Tuples(Dims) \cup LongShapes \cup OverflowShapes \cup WrapShapes

\* the shapes passed to Reshape
NewShapes == Tuples({0 - 2, 0, 1, 2}) \cup LongShapes

\* index tuples for the arrays of rank MaxDims
LongIndices ==
    { Const(MaxDims, 0),
      [i \in 1..MaxDims |-> IF i = MaxDims THEN 1 ELSE 0],
      Const(MaxDims + 1, 0) }

Indices == Tuples(Dims) \cup LongIndices \cup WrapIndices

----------------------------------------------------------------------------
(* Errors: the format string of fmt.Errorf and its arguments *)

NoError == [msg |-> "nil", args |-> <<>>]

ErrEmptyShape ==
    [msg |-> "shape must have at least one dimension", args |-> <<>>]

ErrTooManyDims ==
    [msg |-> "shape has too many dimensions (max 32)", args |-> <<>>]

ErrDimNotPositive(dim) ==
    [msg |-> "dimension size must be positive, got %d", args |-> <<dim>>]

ErrRank(n, rank) ==
    [msg |-> "number of indices (%d) does not match array dimensions (%d)",
     args |-> <<n, rank>>]

\* Get's and Set's per-axis errors differ in their wording only
ErrAxisGet(index, axis, size) ==
    [msg |-> "index %d out of bounds for axis %d with size %d",
     args |-> <<index, axis, size>>]

ErrAxisSet(index, axis, size) ==
    [msg |-> "index %d out of bounds for axis %d (size %d)",
     args |-> <<index, axis, size>>]

ErrFlat(flatIndex, size) ==
    [msg |-> "flat index %d out of bounds for array of size %d",
     args |-> <<flatIndex, size>>]

----------------------------------------------------------------------------
(* New *)

\* the least element of a non-empty set of integers
Least(S) == CHOOSE x \in S : \A y \in S : x <= y

\* FirstBadDim with the test dim < 0 in place of dim <= 0
FirstNegativeDim(shp) ==
    LET bad == { i \in 1..Len(shp) : shp[i] < 0 }
    IN  IF bad = {} THEN 0 ELSE Least(bad)

\* FirstBadDim with the loop over shape running from the last extent to
\* the first
LastBadDim(shp) ==
    LET bad == { i \in 1..Len(shp) : shp[i] <= 0 }
    IN  IF bad = {} THEN 0 ELSE CHOOSE i \in bad : \A j \in bad : j <= i

\* FirstBadDim with the loop over shape stopping before the last extent
FirstBadDimSkipsLast(shp) ==
    LET bad == { i \in 1..(Len(shp) - 1) : shp[i] <= 0 }
    IN  IF bad = {} THEN 0 ELSE Least(bad)

\* the axis (1-based) at which the loop over shape returns its error: the
\* first one whose extent is <= 0, or 0 when there is none
FirstBadDim(shp) ==
    LET bad == { i \in 1..Len(shp) : shp[i] <= 0 }
    IN  IF bad = {} THEN 0 ELSE Least(bad)

\* 1 multiplied, as an int, by the extents lo..hi in turn.  Multiplication
\* of ints is associative, also when it wraps, so the extents are multiplied
\* by halves, which keeps the evaluation shallow for a shape of 32 axes.
RECURSIVE IntProduct(_, _, _)
IntProduct(shp, lo, hi) ==
    IF lo > hi THEN 1
    ELSE IF lo = hi THEN IntMul(1, shp[lo])
    ELSE LET mid == (lo + hi) \div 2
         IN  IntMul(IntProduct(shp, lo, mid), IntProduct(shp, mid + 1, hi))

\* TotalSize with the loop over shape starting at the second extent
TotalSizeSkipsFirst(shp) == IntProduct(shp, 2, Len(shp))

\* totalSize after the loop over shape
TotalSize(shp) == IntProduct(shp, 1, Len(shp))

\* strides[i] of the row-major loop, i 1-based: the int product of the
\* extents after axis i
StrideAt(shp, i) == IntProduct(shp, i + 1, Len(shp))

RowMajorStrides(shp) == [i \in 1..Len(shp) |-> StrideAt(shp, i)]

\* Make with every call returning the buffer of the first
MakeFirst(k) == 1

\* make([]float64, totalSize) returns a buffer that no earlier call of make
\* returned: buffers are named by the number of the call that made them
Make(k) == k

\* the nil *NDArray
NoArray == [ptr |-> "nil", data |-> <<>>, shape |-> <<>>, strides |-> <<>>]

\* what New returns: the array, the error, and whether it panicked instead
NewResult(shp) ==
    IF Len(shp) = 0 THEN
        [arr |-> NoArray, err |-> ErrEmptyShape, panic |-> FALSE]
    ELSE IF Len(shp) > MaxDims THEN
        [arr |-> NoArray, err |-> ErrTooManyDims, panic |-> FALSE]
    ELSE IF FirstBadDim(shp) # 0 THEN
        [arr |-> NoArray, err |-> ErrDimNotPositive(shp[FirstBadDim(shp)]),
         panic |-> FALSE]
    ELSE IF TotalSize(shp) < 0 THEN
        \* make([]float64, totalSize) with a negative length panics
        [arr |-> NoArray, err |-> NoError, panic |-> TRUE]
    ELSE
        [arr |-> [ptr |-> "ptr",
                  data |-> Const(TotalSize(shp), 0),
                  shape |-> shp,
                  strides |-> RowMajorStrides(shp)],
         err |-> NoError, panic |-> FALSE]

----------------------------------------------------------------------------
(* Get and Set *)

\* FirstBadIndex without the test index < 0
FirstBadIndexUpperOnly(shp, indices) ==
    LET bad == { i \in 1..Len(indices) : indices[i] >= shp[i] }
    IN  IF bad = {} THEN 0 ELSE Least(bad)

\* the position (1-based) at which the loop over indices returns its error:
\* the first one whose index is < 0 or >= the extent of its axis, or 0 when
\* there is none
FirstBadIndex(shp, indices) ==
    LET bad == { i \in 1..Len(indices) :
                     indices[i] < 0 \/ indices[i] >= shp[i] }
    IN  IF bad = {} THEN 0 ELSE Least(bad)

\* the int sum of indices[i] * strides[i] over the positions lo..hi (int
\* addition is associative, also when it wraps; summed by halves)
RECURSIVE IntDot(_, _, _, _)
IntDot(strd, indices, lo, hi) ==
    IF lo > hi THEN 0
    ELSE IF lo = hi THEN IntAdd(0, IntMul(indices[lo], strd[lo]))
    ELSE LET mid == (lo + hi) \div 2
         IN  IntAdd(IntDot(strd, indices, lo, mid),
                    IntDot(strd, indices, mid + 1, hi))

\* flatIndex (Get) and offset (Set) after the loop over the first n indices
FlatIndex(strd, indices, n) == IntDot(strd, indices, 1, n)

\* GetResult with the per-axis loop run before the rank check, over the
\* axes that have both an index and an extent
GetResultBoundsFirst(arr, indices) ==
    LET m == IF Len(indices) < Len(arr.shape) THEN Len(indices)
             ELSE Len(arr.shape)
        i == FirstBadIndex(arr.shape, SubSeq(indices, 1, m))
    IN  IF i # 0 THEN
            [val |-> 0, err |-> ErrAxisGet(indices[i], i - 1, arr.shape[i])]
        ELSE IF Len(indices) # Len(arr.shape) THEN
            [val |-> 0, err |-> ErrRank(Len(indices), Len(arr.shape))]
        ELSE
            LET flatIndex == FlatIndex(arr.strides, indices, Len(indices))
            IN  IF flatIndex < 0 \/ flatIndex >= Len(arr.data)
                THEN [val |-> 0, err |-> ErrFlat(flatIndex, Len(arr.data))]
                ELSE [val |-> arr.data[flatIndex + 1], err |-> NoError]

\* what a.Get(indices...) returns on a non-nil array
GetResult(arr, indices) ==
    IF Len(indices) # Len(arr.shape) THEN
        [val |-> 0, err |-> ErrRank(Len(indices), Len(arr.shape))]
    ELSE IF FirstBadIndex(arr.shape, indices) # 0 THEN
        LET i == FirstBadIndex(arr.shape, indices)
        IN  [val |-> 0, err |-> ErrAxisGet(indices[i], i - 1, arr.shape[i])]
    ELSE
        LET flatIndex == FlatIndex(arr.strides, indices, Len(indices))
        IN  IF flatIndex < 0 \/ flatIndex >= Len(arr.data)
            THEN [val |-> 0, err |-> ErrFlat(flatIndex, Len(arr.data))]
            ELSE [val |-> arr.data[flatIndex + 1], err |-> NoError]

\* SetResult with the write done inside the loop, axis by axis, so that a
\* call rejected at a later axis has already written at the offset of the
\* axes before it
SetResultWritesInLoop(arr, value, indices) ==
    IF Len(indices) # Len(arr.shape) THEN
        [data |-> arr.data, err |-> ErrRank(Len(indices), Len(arr.shape)),
         panic |-> FALSE]
    ELSE IF FirstBadIndex(arr.shape, indices) # 0 THEN
        LET i == FirstBadIndex(arr.shape, indices)
            offset == FlatIndex(arr.strides, indices, i - 1)
        IN  [data |-> IF i > 1 /\ offset >= 0 /\ offset < Len(arr.data)
                      THEN [arr.data EXCEPT ![offset + 1] = value]
                      ELSE arr.data,
             err |-> ErrAxisSet(indices[i], i - 1, arr.shape[i]),
             panic |-> FALSE]
    ELSE
        LET offset == FlatIndex(arr.strides, indices, Len(indices))
        IN  IF offset < 0 \/ offset >= Len(arr.data)
            THEN [data |-> arr.data, err |-> NoError, panic |-> TRUE]
            ELSE [data |-> [arr.data EXCEPT ![offset + 1] = value],
                  err |-> NoError, panic |-> FALSE]

\* what a.Set(value, indices...) does to data and returns on a non-nil array;
\* a.data[offset] = value panics when offset is outside the buffer
SetResult(arr, value, indices) ==
    IF Len(indices) # Len(arr.shape) THEN
        [data |-> arr.data, err |-> ErrRank(Len(indices), Len(arr.shape)),
         panic |-> FALSE]
    ELSE IF FirstBadIndex(arr.shape, indices) # 0 THEN
        LET i == FirstBadIndex(arr.shape, indices)
        IN  [data |-> arr.data,
             err |-> ErrAxisSet(indices[i], i - 1, arr.shape[i]),
             panic |-> FALSE]
    ELSE
        LET offset == FlatIndex(arr.strides, indices, Len(indices))
        IN  IF offset < 0 \/ offset >= Len(arr.data)
            THEN [data |-> arr.data, err |-> NoError, panic |-> TRUE]
            ELSE [data |-> [arr.data EXCEPT ![offset + 1] = value],
                  err |-> NoError, panic |-> FALSE]

----------------------------------------------------------------------------
(* Reshape, Ones and Full are stubs in ndarray.go *)

\* ReshapeResult with the buffer replaced by a fresh one of the same length
ReshapeResultReallocates(arr, newShape) ==
    [arr |-> [arr EXCEPT !.data = Const(Len(arr.data), 0)], err |-> NoError]

\* a.Reshape(newShape...): returns nil and changes nothing
ReshapeResult(arr, newShape) == [arr |-> arr, err |-> NoError]

\* Ones(shape...): returns (nil, nil)
OnesResult(shp) ==
    [arr |-> NoArray, err |-> NoError, panic |-> FALSE]

\* Full(value, shape...): returns (nil, nil)
FullResult(value, shp) ==
    [arr |-> NoArray, err |-> NoError, panic |-> FALSE]

\* Zeros(shape...): return New(shape...)
ZerosResult(shp) == NewResult(shp)

\* a.Size(): len(a.data)
SizeResult(arr) == Len(arr.data)

\* a.Shape(): a.shape
ShapeResult(arr) == arr.shape

\* a.String(): "NDArray(shape=%v, data=%v)" of a.shape and a.data
StringResult(arr) == <<arr.shape, arr.data>>

----------------------------------------------------------------------------
(* The state machine *)

\* the NDArray the handle points to
Array == [ptr |-> a, data |-> data, shape |-> shape, strides |-> strides]

\* no second array yet
NoOther ==
    [ptr |-> "none", buf |-> 0, data |-> <<>>, shape |-> <<>>, strides |-> <<>>]

\* a slice of a buffer whose first elements are now `written`
Overlay(old, written) ==
    [i \in 1..Len(old) |-> IF i <= Len(written) THEN written[i] ELSE old[i]]

\* arr after a write that left `written` in the buffer buf: an array whose
\* data is that buffer sees the elements written
SeenThrough(arr, buf, written) ==
    IF arr.ptr = "ptr" /\ arr.buf = buf
    THEN [arr EXCEPT !.data = Overlay(arr.data, written)]
    ELSE arr

\* last keeps the indices of a call that got past validation; a rejected
\* call is described by its error, which names the offending index
Recorded(err, indices) == IF err = NoError THEN indices ELSE <<>>

\* op: the function called; shape, indices, value: its arguments;
\* err: the error returned; ptr: the *NDArray a constructor returned;
\* val: the float64 Get returned; n: the int Size returned;
\* out: the []int Shape returned; str: the shape and data String printed
NoCall ==
    [op |-> "none", shape |-> <<>>, indices |-> <<>>, value |-> 0,
     err |-> NoError, ptr |-> "nil", val |-> 0, n |-> 0, out |-> <<>>,
     str |-> <<>>]

Init ==
    /\ a = "none"
    /\ data = <<>>
    /\ shape = <<>>
    /\ strides = <<>>
    /\ last = NoCall
    /\ panicked = FALSE
    /\ other = NoOther

\* the caller keeps what a constructor returned: on an error it has no array
\* to use, on a nil error it uses the pointer it got, nil or not
Construct(op, shp, value, r) ==
    /\ panicked' = r.panic
    /\ a' = IF r.panic \/ r.err # NoError THEN "none" ELSE r.arr.ptr
    /\ data' = r.arr.data
    /\ shape' = r.arr.shape
    /\ strides' = r.arr.strides
    /\ UNCHANGED other
    /\ last' = [NoCall EXCEPT !.op = op, !.shape = shp, !.value = value,
                              !.err = r.err, !.ptr = r.arr.ptr]

New(shp) ==
    /\ a = "none"
    /\ ~panicked
    /\ Construct("New", shp, 0, NewResult(shp))

Zeros(shp) ==
    /\ a = "none"
    /\ ~panicked
    /\ Construct("Zeros", shp, 0, ZerosResult(shp))

Ones(shp) ==
    /\ a = "none"
    /\ ~panicked
    /\ Construct("Ones", shp, 0, OnesResult(shp))

Full(value, shp) ==
    /\ a = "none"
    /\ ~panicked
    /\ Construct("Full", shp, value, FullResult(value, shp))

\* a method that reads a field of a nil *NDArray panics
NilReceiver(op, indices, value) ==
    /\ panicked' = TRUE
    /\ last' = [NoCall EXCEPT !.op = op, !.indices = indices, !.value = value]
    /\ UNCHANGED <<a, data, shape, strides, other>>

\* Get with the element it reads reset to 0.0
GetClearsElement(indices) ==
    \/ /\ a = "nil"
       /\ ~panicked
       /\ NilReceiver("Get", indices, 0)
    \/ /\ a = "ptr"
       /\ ~panicked
       /\ LET r == GetResult(Array, indices)
              w == SetResult(Array, 0, indices)
          IN  /\ last' = [NoCall EXCEPT !.op = "Get",
                                        !.indices = Recorded(r.err, indices),
                                        !.err = r.err, !.val = r.val]
              /\ data' = IF r.err = NoError THEN w.data ELSE data
       /\ UNCHANGED <<a, shape, strides, panicked, other>>

Get(indices) ==
    \/ /\ a = "nil"
       /\ ~panicked
       /\ NilReceiver("Get", indices, 0)
    \/ /\ a = "ptr"
       /\ ~panicked
       /\ LET r == GetResult(Array, indices)
          IN  last' = [NoCall EXCEPT !.op = "Get",
                                     !.indices = Recorded(r.err, indices),
                                     !.err = r.err, !.val = r.val]
       /\ UNCHANGED <<a, data, shape, strides, panicked, other>>

Set(value, indices) ==
    \/ /\ a = "nil"
       /\ ~panicked
       /\ NilReceiver("Set", indices, value)
    \/ /\ a = "ptr"
       /\ ~panicked
       /\ LET r == SetResult(Array, value, indices)
          IN  /\ data' = r.data
              /\ other' = SeenThrough(other, Make(1), r.data)
              /\ panicked' = r.panic
              /\ last' = [NoCall EXCEPT
                              !.op = "Set",
                              !.indices = Recorded(r.err, indices),
                              !.value = IF r.err = NoError THEN value ELSE 0,
                              !.err = r.err]
       /\ UNCHANGED <<a, shape, strides>>

Shape ==
    \/ /\ a = "nil"
       /\ ~panicked
       /\ NilReceiver("Shape", <<>>, 0)
    \/ /\ a = "ptr"
       /\ ~panicked
       /\ last' = [NoCall EXCEPT !.op = "Shape", !.out = ShapeResult(Array)]
       /\ UNCHANGED <<a, data, shape, strides, panicked, other>>

Size ==
    \/ /\ a = "nil"
       /\ ~panicked
       /\ NilReceiver("Size", <<>>, 0)
    \/ /\ a = "ptr"
       /\ ~panicked
       /\ last' = [NoCall EXCEPT !.op = "Size", !.n = SizeResult(Array)]
       /\ UNCHANGED <<a, data, shape, strides, panicked, other>>

String ==
    \/ /\ a = "nil"
       /\ ~panicked
       /\ NilReceiver("String", <<>>, 0)
    \/ /\ a = "ptr"
       /\ ~panicked
       /\ last' = [NoCall EXCEPT !.op = "String", !.str = StringResult(Array)]
       /\ UNCHANGED <<a, data, shape, strides, panicked, other>>

\* Reshape never reads its receiver, so it returns nil on a nil array too
Reshape(newShape) ==
    /\ a \in {"nil", "ptr"}
    /\ ~panicked
    /\ LET r == ReshapeResult(Array, newShape)
       IN  /\ data' = r.arr.data
           /\ shape' = r.arr.shape
           /\ strides' = r.arr.strides
           /\ last' = [NoCall EXCEPT !.op = "Reshape", !.shape = newShape,
                                     !.err = r.err]
    /\ UNCHANGED <<a, panicked, other>>

Next ==
    \/ \E shp \in Shapes : New(shp)
    \/ \E shp \in Shapes : Zeros(shp)
    \/ \E shp \in Shapes : Ones(shp)
    \/ \E shp \in Shapes, value \in FullValues : Full(value, shp)
    \/ \E indices \in Indices : Get(indices)
    \/ \E indices \in Indices, value \in Values : Set(value, indices)
    \/ Shape
    \/ Size
    \/ String
    \/ \E newShape \in NewShapes : Reshape(newShape)

Spec == Init /\ [][Next]_vars

----------------------------------------------------------------------------
(* Two arrays: the first call of New made a, a second one makes other *)

NewOther(shp) ==
    /\ a = "ptr"
    /\ other.ptr = "none"
    /\ ~panicked
    /\ LET r == NewResult(shp)
       IN  /\ panicked' = r.panic
           /\ other' = IF r.panic \/ r.err # NoError THEN other
                       ELSE [ptr |-> "ptr", buf |-> Make(2),
                             data |-> r.arr.data, shape |-> r.arr.shape,
                             strides |-> r.arr.strides]
           /\ last' = [NoCall EXCEPT !.op = "NewOther", !.shape = shp,
                                     !.err = r.err, !.ptr = r.arr.ptr]
    /\ UNCHANGED <<a, data, shape, strides>>

GetOther(indices) ==
    /\ other.ptr = "ptr"
    /\ ~panicked
    /\ LET r == GetResult(other, indices)
       IN  last' = [NoCall EXCEPT !.op = "GetOther",
                                  !.indices = Recorded(r.err, indices),
                                  !.err = r.err, !.val = r.val]
    /\ UNCHANGED <<a, data, shape, strides, panicked, other>>

SetOther(value, indices) ==
    /\ other.ptr = "ptr"
    /\ ~panicked
    /\ LET r == SetResult(other, value, indices)
       IN  /\ other' = [other EXCEPT !.data = r.data]
           /\ data' = IF other.buf = Make(1) THEN Overlay(data, r.data)
                      ELSE data
           /\ panicked' = r.panic
           /\ last' = [NoCall EXCEPT
                           !.op = "SetOther",
                           !.indices = Recorded(r.err, indices),
                           !.value = IF r.err = NoError THEN value ELSE 0,
                           !.err = r.err]
    /\ UNCHANGED <<a, shape, strides>>

\* the shapes and the indices of the callers that hold two arrays
PairShapes == { <<0>>, <<2>>, <<1, 2>> }
PairIndices == Tuples(0..1) \cup { <<2>> }

PairNext ==
    \/ \E shp \in PairShapes : New(shp)
    \/ \E shp \in PairShapes : Ones(shp)
    \/ \E shp \in PairShapes : NewOther(shp)
    \/ \E indices \in PairIndices : Get(indices)
    \/ \E indices \in PairIndices : GetOther(indices)
    \/ \E indices \in PairIndices, value \in Values : Set(value, indices)
    \/ \E indices \in PairIndices, value \in Values : SetOther(value, indices)

PairSpec == Init /\ [][PairNext]_vars

----------------------------------------------------------------------------
(* A caller that writes into the slice Shape returned *)

\* Shape returns a.shape itself, not a copy: the slice the caller gets has
\* the backing array of the field, and an element the caller assigns is an
\* element of a.shape.  ShapeWrite(i, v) is the statement a.Shape()[i-1] = v.
ShapeWrite(i, v) ==
    /\ a = "ptr"
    /\ ~panicked
    /\ i \in 1..Len(ShapeResult(Array))
    /\ shape' = [ShapeResult(Array) EXCEPT ![i] = v]
    /\ last' = [NoCall EXCEPT !.op = "ShapeWrite", !.value = v,
                              !.out = [ShapeResult(Array) EXCEPT ![i] = v]]
    /\ UNCHANGED <<a, data, strides, panicked, other>>

\* New stores its parameter, shape: shape.  Called as New(s...), the
\* parameter is the caller's slice s itself, so a.shape has the backing array
\* of s (Zeros passes its own parameter on the same way).  SliceWrite(i, v)
\* is the caller's statement s[i-1] = v after such a call.
SliceWrite(i, v) ==
    /\ a = "ptr"
    /\ ~panicked
    /\ i \in 1..Len(shape)
    /\ shape' = [shape EXCEPT ![i] = v]
    /\ last' = [NoCall EXCEPT !.op = "SliceWrite", !.value = v]
    /\ UNCHANGED <<a, data, strides, panicked, other>>

\* the shapes, the axes and the extents of the callers that write
AliasShapes == { <<>>, <<2>>, <<2, 2>> }
AliasAxes == 1..2
AliasExtents == {1, 5}

AliasNext ==
    \/ \E shp \in AliasShapes : New(shp)
    \/ \E shp \in AliasShapes : Zeros(shp)
    \/ \E shp \in AliasShapes : Ones(shp)
    \/ \E shp \in AliasShapes, value \in FullValues : Full(value, shp)
    \/ \E indices \in Tuples(Dims) : Get(indices)
    \/ \E indices \in Tuples(Dims), value \in Values : Set(value, indices)
    \/ Shape
    \/ Size
    \/ String
    \/ \E newShape \in AliasShapes : Reshape(newShape)
    \/ \E i \in AliasAxes, v \in AliasExtents : ShapeWrite(i, v)
    \/ \E i \in AliasAxes, v \in AliasExtents : SliceWrite(i, v)

AliasSpec == Init /\ [][AliasNext]_vars

----------------------------------------------------------------------------
(* The vocabulary of the claims *)

\* the product of the extents lo..hi, as an unbounded integer
RECURSIVE Product(_, _, _)
Product(shp, lo, hi) ==
    IF lo > hi THEN 1
    ELSE IF lo = hi THEN shp[lo]
    ELSE LET mid == (lo + hi) \div 2
         IN  Product(shp, lo, mid) * Product(shp, mid + 1, hi)

Count(shp) == Product(shp, 1, Len(shp))

\* the sum of indices[i] * strd[i] over the positions lo..hi, as an
\* unbounded integer
RECURSIVE Dot(_, _, _, _)
Dot(strd, indices, lo, hi) ==
    IF lo > hi THEN 0
    ELSE IF lo = hi THEN indices[lo] * strd[lo]
    ELSE LET mid == (lo + hi) \div 2
         IN  Dot(strd, indices, lo, mid) + Dot(strd, indices, mid + 1, hi)

\* rank 1..32 and every extent > 0
ValidShape(shp) ==
    /\ Len(shp) >= 1
    /\ Len(shp) <= 32
    /\ \A i \in 1..Len(shp) : shp[i] > 0

\* one index per axis, each within the extent of its axis
ValidIndices(shp, indices) ==
    /\ Len(indices) = Len(shp)
    /\ \A i \in 1..Len(shp) : indices[i] >= 0 /\ indices[i] < shp[i]

\* the first axis (1-based) of shp whose extent is not positive
FirstNonPositive(shp) ==
    CHOOSE i \in 1..Len(shp) :
        shp[i] <= 0 /\ \A j \in 1..(i - 1) : shp[j] > 0

\* New is given a shape of a rank it accepts with an extent <= 0
HasNonPositive(shp) ==
    /\ Len(shp) >= 1
    /\ Len(shp) <= 32
    /\ \E i \in 1..Len(shp) : shp[i] <= 0

\* the error kinds of the specification
ErrKind(err) ==
    IF err = NoError THEN "nil"
    ELSE IF err.msg \in {ErrEmptyShape.msg, ErrTooManyDims.msg,
                         ErrDimNotPositive(0).msg} THEN "InvalidShape"
    ELSE IF err.msg = ErrRank(0, 0).msg THEN "RankMismatch"
    ELSE IF err.msg \in {ErrAxisGet(0, 0, 0).msg, ErrAxisSet(0, 0, 0).msg,
                         ErrFlat(0, 0).msg} THEN "IndexOutOfBounds"
    ELSE "other"

\* the call returned a zero-filled array of last.shape
ReturnedZeros ==
    /\ ~panicked
    /\ last.err = NoError
    /\ last.ptr = "ptr"
    /\ a = "ptr"
    /\ SizeResult(Array) = Count(last.shape)
    /\ \A indices \in Indices :
           ValidIndices(last.shape, indices)
               => GetResult(Array, indices) = [val |-> 0, err |-> NoError]

----------------------------------------------------------------------------
(* C1 *)

----------------------------------------------------------------------------
(* C2 *)

\* C2: New and Zeros called with an empty shape, with more than 32 axes or
\* with an extent <= 0 return a non-nil error and a nil array, and no array
\* is constructed.
C2_InvalidShapeRejected ==
    (last.op \in {"New", "Zeros"} /\ ~ValidShape(last.shape))
        => /\ ErrKind(last.err) = "InvalidShape"
           /\ last.ptr = "nil"
           /\ ~panicked
           /\ a = "none"
           /\ data = <<>> /\ shape = <<>> /\ strides = <<>>

C2_Witness ==
    /\ last.op = "New"
    /\ last.shape = <<0, 3>>
    /\ last.err = ErrDimNotPositive(0)
    /\ last.ptr = "nil"

----------------------------------------------------------------------------
(* C3 *)

\* C3: on every array, Set(v, idx) with one index per axis, each within its
\* extent, succeeds, and a Get(idx) that follows returns v and no error.
C3_SetThenGet ==
    (last.op = "Set" /\ a = "ptr" /\ ValidIndices(shape, last.indices))
        => /\ ~panicked
           /\ last.err = NoError
           /\ GetResult(Array, last.indices)
                  = [val |-> last.value, err |-> NoError]

----------------------------------------------------------------------------
(* C4 *)

\* C4: Get and Set called with a number of indices other than the rank fail
\* with the rank-mismatch error, whatever the indices are, and the array is
\* not changed.
C4_RankCheckFirst ==
    a = "ptr" =>
        \A indices \in Indices :
            Len(indices) # Len(shape) =>
                /\ GetResult(Array, indices)
                       = [val |-> 0, err |-> ErrRank(Len(indices), Len(shape))]
                /\ \A value \in Values :
                       SetResult(Array, value, indices)
                           = [data |-> data,
                              err |-> ErrRank(Len(indices), Len(shape)),
                              panic |-> FALSE]

C4_Witness ==
    /\ last.op = "Get"
    /\ shape = <<2, 2>>
    /\ last.err = ErrRank(1, 2)

----------------------------------------------------------------------------
(* C5 *)

\* C5: Get and Set called with one index per axis, at least one of them < 0
\* or >= the extent of its axis, fail with the index-out-of-bounds error, and
\* no element is written.
C5_OutOfBoundsRejected ==
    a = "ptr" =>
        \A indices \in Indices :
            (/\ Len(indices) = Len(shape)
             /\ \E i \in 1..Len(shape) :
                    indices[i] < 0 \/ indices[i] >= shape[i])
            => /\ ErrKind(GetResult(Array, indices).err) = "IndexOutOfBounds"
               /\ GetResult(Array, indices).val = 0
               /\ \A value \in Values :
                      LET r == SetResult(Array, value, indices)
                      IN  /\ ErrKind(r.err) = "IndexOutOfBounds"
                          /\ r.data = data
                          /\ ~r.panic

C5_Witness ==
    /\ last.op = "Get"
    /\ shape = <<2, 2>>
    /\ last.err = ErrAxisGet(3, 0, 2)

----------------------------------------------------------------------------
(* C6 *)

\* C6: a call to Set that returns an error leaves data, shape and strides as
\* they were.
C6_FailedSetChangesNothing ==
    [][(last'.op = "Set" /\ last'.err # NoError)
           => (data' = data /\ shape' = shape /\ strides' = strides)]_vars

C6_Witness ==
    /\ last.op = "Set"
    /\ ErrKind(last.err) = "IndexOutOfBounds"
    /\ \E i \in 1..Len(data) : data[i] = 42

----------------------------------------------------------------------------
(* C7, C8, C9 *)

\* C7: Reshape(newShape) with a valid newShape whose product is the product
\* of the current shape succeeds; afterwards the shape is newShape, the
\* strides are its row-major strides and the buffer is as it was.
C7_ReshapeSameCount ==
    [][(/\ last'.op = "Reshape"
        /\ a = "ptr"
        /\ ValidShape(last'.shape)
        /\ Count(last'.shape) = Count(shape))
           => (/\ last'.err = NoError
               /\ shape' = last'.shape
               /\ strides' = RowMajorStrides(last'.shape)
               /\ data' = data)]_vars

\* C8: Reshape(newShape) with a newShape whose product differs from the
\* product of the current shape returns a ShapeMismatch error and leaves the
\* shape, the size and every element as they were.
C8_ReshapeOtherCount ==
    [][(/\ last'.op = "Reshape"
        /\ a = "ptr"
        /\ ValidShape(last'.shape)
        /\ Count(last'.shape) # Count(shape))
           => (/\ last'.err # NoError
               /\ shape' = shape
               /\ strides' = strides
               /\ data' = data)]_vars

\* C9: Reshape called with an empty shape, with more than 32 axes or with an
\* extent <= 0 returns an InvalidShape error and changes nothing.
C9_ReshapeInvalidShape ==
    [][(/\ last'.op = "Reshape"
        /\ a = "ptr"
        /\ ~ValidShape(last'.shape))
           => (/\ last'.err # NoError
               /\ shape' = shape
               /\ strides' = strides
               /\ data' = data)]_vars

----------------------------------------------------------------------------
(* C10 *)

\* C10: Ones(shape) with a valid shape returns no error and an array of that
\* shape whose Size() is the product of the extents and whose every element
\* is 1.0.
C10_OnesFilled ==
    (last.op = "Ones" /\ ValidShape(last.shape))
        => /\ ~panicked
           /\ last.err = NoError
           /\ last.ptr = "ptr"
           /\ shape = last.shape
           /\ SizeResult(Array) = Count(last.shape)
           /\ \A i \in 1..Len(data) : data[i] = 1

----------------------------------------------------------------------------
(* C11 *)

\* C11: Full(value, shape) with a valid shape returns no error and an array
\* of that shape in which Get at every valid coordinate tuple returns value.
C11_FullFilled ==
    (last.op = "Full" /\ ValidShape(last.shape))
        => /\ ~panicked
           /\ last.err = NoError
           /\ last.ptr = "ptr"
           /\ a = "ptr"
           /\ shape = last.shape
           /\ \A indices \in Indices :
                  ValidIndices(last.shape, indices)
                      => GetResult(Array, indices)
                             = [val |-> last.value, err |-> NoError]

----------------------------------------------------------------------------
(* C12 *)

\* C12: Ones and Full called with an empty shape, with more than 32 axes or
\* with an extent <= 0 return the InvalidShape error that New returns for
\* that shape.
C12_OnesFullValidate ==
    (last.op \in {"Ones", "Full"} /\ ~ValidShape(last.shape))
        => /\ ErrKind(last.err) = "InvalidShape"
           /\ last.err = NewResult(last.shape).err

----------------------------------------------------------------------------
(* C13 *)

\* C13: a constructor that returns a nil error returns a non-nil array, and
\* one that returns a non-nil error returns a nil array.
C13_ErrorOrArray ==
    (last.op \in {"New", "Zeros", "Ones", "Full"} /\ ~panicked)
        => (last.err = NoError <=> last.ptr = "ptr")

----------------------------------------------------------------------------
(* C14 *)

\* C14: an assignment to an element of the slice Shape() returned does not
\* change the array: its shape, and with it the extents Get and Set check
\* the indices against, is as it was.
C14_ShapeWriteChangesNothing ==
    [][last'.op = "ShapeWrite"
           => (/\ shape' = shape
               /\ \A indices \in Tuples(Dims) :
                      GetResult(Array', indices) = GetResult(Array, indices))
      ]_vars

----------------------------------------------------------------------------
(* C15 *)

\* C15: in every reachable state of an array the product of the extents of
\* shape is len(data), and Size() returns that number.
C15_ProductIsLen ==
    a = "ptr" => /\ Count(shape) = Len(data)
                 /\ SizeResult(Array) = Count(shape)

----------------------------------------------------------------------------
(* C16 *)

\* C16: in every reachable state of an array strides has one entry per axis,
\* the last is 1 and each other one is the next stride times the next
\* extent.
C16_StridesRowMajor ==
    a = "ptr" =>
        /\ Len(strides) = Len(shape)
        /\ strides[Len(shape)] = 1
        /\ \A i \in 1..(Len(shape) - 1) :
               strides[i] = strides[i + 1] * shape[i + 1]

----------------------------------------------------------------------------
(* C17 *)

----------------------------------------------------------------------------
(* C18 *)

\* C18: Get called with one index per axis, each within its extent, returns
\* no error and the element of data at the offset that is the sum of
\* indices[i] * strides[i] over the axes.
C18_GetReadsAtOffset ==
    a = "ptr" =>
        \A indices \in Indices :
            ValidIndices(shape, indices) =>
                LET offset == Dot(strides, indices, 1, Len(indices))
                IN  /\ offset >= 0
                    /\ offset < Len(data)
                    /\ GetResult(Array, indices)
                           = [val |-> data[offset + 1], err |-> NoError]

----------------------------------------------------------------------------
(* C19 *)

\* C19: a call to Reshape, whatever it returns, leaves data as it was, and
\* no step changes the length of an array's data.
C19_ReshapeKeepsBuffer ==
    [][/\ last'.op = "Reshape" => data' = data
       /\ (a = "ptr" /\ a' = "ptr") => Len(data') = Len(data)]_vars

C19_Witness ==
    /\ last.op = "Reshape"
    /\ a = "ptr"
    /\ \E i \in 1..Len(data) : data[i] = 42

----------------------------------------------------------------------------
(* C20 *)

\* C20: a call to Get, Shape, Size or String, whatever it returns, leaves
\* data, shape and strides as they were.
C20_ReadsChangeNothing ==
    [][last'.op \in {"Get", "Shape", "Size", "String"}
           => (data' = data /\ shape' = shape /\ strides' = strides)]_vars

C20_Witness ==
    /\ last.op = "Get"
    /\ last.err = NoError
    /\ last.val = 42
    /\ \E i \in 1..Len(data) : data[i] = 42

----------------------------------------------------------------------------
(* C21 *)

\* C21: two arrays returned by two calls of New share no buffer: a Set on
\* one of them leaves what every Get on the other returns as it was.
C21_NoSharedBuffer ==
    [][other.ptr = "ptr" =>
          /\ last'.op = "Set" =>
                 \A indices \in PairIndices :
                     GetResult(other', indices) = GetResult(other, indices)
          /\ last'.op = "SetOther" =>
                 \A indices \in PairIndices :
                     GetResult(Array', indices) = GetResult(Array, indices)
      ]_vars

C21_Witness ==
    /\ last.op = "Set"
    /\ last.err = NoError
    /\ other.ptr = "ptr"
    /\ other.shape = shape
    /\ \A i \in 1..Len(data) : data[i] = 42 /\ other.data[i] = 0

----------------------------------------------------------------------------
(* C22 *)

\* C22: Get at a valid index tuple returns the value of the most recent
\* successful Set at that tuple, or 0.0 when there has been none since New.
\* Step by step: after New every valid tuple reads 0.0; after a successful
\* Set its tuple reads the value set; after any other call, and at any other
\* tuple, Get returns what it returned before.
C22_LastSetWins ==
    [][(a' = "ptr" /\ ~panicked') =>
          \A idx \in Indices :
              ValidIndices(shape', idx) =>
                  GetResult(Array', idx) =
                      [val |-> IF last'.op \in {"New", "Zeros"} THEN 0
                               ELSE IF /\ last'.op = "Set"
                                       /\ last'.err = NoError
                                       /\ last'.indices = idx
                                    THEN last'.value
                               ELSE GetResult(Array, idx).val,
                       err |-> NoError]
      ]_vars

----------------------------------------------------------------------------
(* C23 *)

\* C23: a successful Set(v, idx) leaves shape and strides as they were, and
\* Get at every valid index tuple other than idx returns what it returned
\* before the call.
C23_SetWritesOneElement ==
    [][(/\ a = "ptr"
        /\ last'.op = "Set"
        /\ last'.err = NoError
        /\ ~panicked') =>
          /\ shape' = shape
          /\ strides' = strides
          /\ \A j \in Indices :
                 (ValidIndices(shape, j) /\ j # last'.indices)
                     => GetResult(Array', j) = GetResult(Array, j)
      ]_vars

----------------------------------------------------------------------------
(* C24 *)

\* C24: in every reachable state of an array, the flat offset computed from
\* an index tuple that passes the rank check and the per-axis checks is at
\* least 0 and less than len(data).
C24_OffsetInBuffer ==
    a = "ptr" =>
        \A indices \in Indices :
            (/\ Len(indices) = Len(shape)
             /\ FirstBadIndex(shape, indices) = 0)
            => LET offset == FlatIndex(strides, indices, Len(indices))
               IN  offset >= 0 /\ offset < Len(data)

----------------------------------------------------------------------------
(* C25 *)

\* C25: when the flat offset computed from indices that passed the per-axis
\* checks is outside the buffer, Set returns an index-out-of-bounds error
\* and writes nothing.
C25_SetChecksOffset ==
    a = "ptr" =>
        \A indices \in Indices :
            (/\ Len(indices) = Len(shape)
             /\ FirstBadIndex(shape, indices) = 0
             /\ LET offset == FlatIndex(strides, indices, Len(indices))
                IN  offset < 0 \/ offset >= Len(data))
            => \A value \in Values :
                   LET r == SetResult(Array, value, indices)
                   IN  /\ ~r.panic
                       /\ ErrKind(r.err) = "IndexOutOfBounds"
                       /\ r.data = data

----------------------------------------------------------------------------
(* C26 *)

\* C26: for every array, value and index tuple, Get returns an error exactly
\* when Set returns one, and the two errors are of the same kind.
C26_GetSetSameErrors ==
    a = "ptr" =>
        \A indices \in Indices, value \in Values :
            LET g == GetResult(Array, indices)
                r == SetResult(Array, value, indices)
            IN  /\ ~r.panic
                /\ ErrKind(g.err) = ErrKind(r.err)

----------------------------------------------------------------------------
(* C27 *)

\* C27: no call on an array that New returned ends in a panic.
C27_NoPanicOnArray ==
    a = "ptr" => ~panicked

----------------------------------------------------------------------------
(* C30 *)

\* C30: New on a shape of rank 1..32 with every extent > 0 whose product
\* does not fit in an int never returns an array, and so never one whose
\* len(data) is the wrapped product.
C30_OverflowRejected ==
    (/\ last.op \in {"New", "Zeros"}
     /\ ValidShape(last.shape)
     /\ Count(last.shape) > MaxInt)
        => /\ last.ptr = "nil"
           /\ a = "none"

----------------------------------------------------------------------------
(* C28 *)

\* C28: after New(s...) has returned an array, an assignment by the caller
\* to an element of s does not change the array: its shape is as it was,
\* and Get and Set accept, reject and address every index tuple as before.
C28_SliceWriteChangesNothing ==
    [][last'.op = "SliceWrite"
           => (/\ shape' = shape
               /\ \A indices \in Tuples(Dims) :
                      /\ GetResult(Array', indices) = GetResult(Array, indices)
                      /\ \A value \in Values :
                             SetResult(Array', value, indices)
                                 = SetResult(Array, value, indices))
      ]_vars

----------------------------------------------------------------------------
(* C29 *)

\* C29 as stated: the error New returns for an extent <= 0 identifies the
\* offending value and its axis: no shape whose first non-positive extent
\* is another value, or on another axis, gets the same error.
C29_ErrorNamesValueAndAxis ==
    (last.op \in {"New", "Zeros"} /\ HasNonPositive(last.shape)) =>
        \A shp \in Shapes :
            (HasNonPositive(shp) /\ NewResult(shp).err = last.err)
                => /\ shp[FirstNonPositive(shp)]
                          = last.shape[FirstNonPositive(last.shape)]
                   /\ FirstNonPositive(shp) = FirstNonPositive(last.shape)

\* C29, amended: the error identifies the offending value, the extent of the
\* first non-positive axis, and nothing else.
C29_ErrorNamesValue ==
    (last.op \in {"New", "Zeros"} /\ HasNonPositive(last.shape)) =>
        /\ last.ptr = "nil"
        /\ last.err
               = ErrDimNotPositive(last.shape[FirstNonPositive(last.shape)])
        /\ \A shp \in Shapes :
               (HasNonPositive(shp) /\ NewResult(shp).err = last.err)
                   => shp[FirstNonPositive(shp)]
                          = last.shape[FirstNonPositive(last.shape)]

C29_Witness ==
    /\ last.op = "New"
    /\ last.shape = <<0 - 1, 0>>
    /\ last.err = ErrDimNotPositive(0 - 1)

====
